---- MODULE Spec2Model ----
(***************************************************************************)
(* rustysynth-test (src/main.rs): a MIDI player that renders audio through *)
(* a SoundStream callback on the audio thread, publishes a decimated copy  *)
(* of every block through a mutex-guarded relay buffer, and draws a        *)
(* smoothed waveform from the render loop of the main thread.              *)
(*                                                                         *)
(* f32 values are modelled as dyadic rationals <<m, e>> = m * 2^e in       *)
(* normal form (m odd, or <<0, 0>>).  Arithmetic on them is exact, which   *)
(* is what IEEE-754 binary32 computes whenever the result has at most 24   *)
(* significant bits; the sample values the model renders are chosen so     *)
(* that every value computed within the bounds is of that kind.            *)
(***************************************************************************)
EXTENDS Integers, Sequences, FiniteSets

(***************************************************************************)
(* Bounds of the model.                                                    *)
(***************************************************************************)
MaxCalls == 2        \* get_data calls explored
MaxFrames == 2       \* render loop iterations explored
MaxEvents == 1       \* window events the user may deliver
NumBlocks == 2       \* distinct blocks the sequencer may render
MidiLength == 1      \* blocks rendered until the MIDI file's last event
PassStride == 512    \* relay entries a thread handles per scheduling step

(***************************************************************************)
(* Program constants.                                                      *)
(***************************************************************************)
WAVEFORM_LENGTH == 1024
SAMPLE_RATE == 44100
SAMPLE_MIN == -32768
SAMPLE_MAX == 32767
I32_MAX == 2147483647
I32_MIN == (-I32_MAX) - 1
WINDOW_HALF_HEIGHT == 384
WAVEFORM_GAIN == 300

\* A block of a tenth of a second instead of a twentieth.
LongBatchLength == SAMPLE_RATE \div 10

\* main.rs:38 and main.rs:80 compute the block length separately.
NewBatchLength == SAMPLE_RATE \div 20
GetDataBatchLength == SAMPLE_RATE \div 20

(***************************************************************************)
(* f32 arithmetic.                                                         *)
(***************************************************************************)
Pow2(n) == 2 ^ n

RECURSIVE Norm(_, _)
Norm(m, e) ==
    IF m = 0 THEN <<0, 0>>
    ELSE IF m % 2 = 0 THEN Norm(m \div 2, e + 1)
    ELSE <<m, e>>

AbsInt(n) == IF n < 0 THEN -n ELSE n

MinInt(a, b) == IF a < b THEN a ELSE b

F32Zero == <<0, 0>>

\* `n as f32` for a small integer n
F32FromInt(n) == Norm(n, 0)

\* The exact sum of two dyadic numbers.
DyadicAdd(x, y) ==
    IF x[2] <= y[2]
    THEN Norm(x[1] + (y[1] * Pow2(y[2] - x[2])), x[2])
    ELSE Norm((x[1] * Pow2(x[2] - y[2])) + y[1], y[2])

\* An f32 has a significand of 24 bits.
F32Limit == Pow2(24)

\* how many low bits of the magnitude n the significand cannot hold
RECURSIVE ExcessBits(_)
ExcessBits(n) == IF n < F32Limit THEN 0 ELSE 1 + ExcessBits(n \div 2)

\* Rounding to the nearest f32, ties to the even significand.  The values of
\* this program stay far from the ends of the exponent range.
F32Round(x) ==
    LET n == AbsInt(x[1])
        k == ExcessBits(n)
        q == n \div Pow2(k)
        r == n % Pow2(k)
        up == IF 2 * r = Pow2(k) THEN q % 2 = 1 ELSE 2 * r > Pow2(k)
        rounded == IF up THEN q + 1 ELSE q
    IN  IF n < F32Limit THEN x
        ELSE Norm(IF x[1] < 0 THEN -rounded ELSE rounded, x[2] + k)

\* f32 `+` and `*`: the exact result, rounded.
F32Add(x, y) == F32Round(DyadicAdd(x, y))

F32Mul(x, y) == F32Round(Norm(x[1] * y[1], x[2] + y[2]))

\* f32 unary minus
F32Neg(x) == <<-x[1], x[2]>>

\* f32::abs
F32Abs(x) == <<AbsInt(x[1]), x[2]>>

\* Rust `as i32` on a float: truncates toward zero and saturates at the
\* limits of i32.
F32ToI32(x) ==
    LET m == x[1]
        e == x[2]
    IN  IF m = 0 THEN 0
        ELSE IF e >= 0
        THEN IF e >= 31 \/ AbsInt(m) > I32_MAX \div Pow2(e)
             THEN (IF m > 0 THEN I32_MAX ELSE I32_MIN)
             ELSE m * Pow2(e)
        ELSE IF -e >= 31 THEN 0
             ELSE IF m > 0 THEN m \div Pow2(-e)
                  ELSE -((-m) \div Pow2(-e))

\* Rust `as i16` on an i32: keeps the low 16 bits (two's complement).
I32ToI16(v) ==
    LET low == v % 65536
    IN  IF low >= 32768 THEN low - 65536 ELSE low

\* `f as usize` for a non-negative f64 with an exact dyadic value
F64ToUsize(x) == IF x[2] >= 0 THEN x[1] * Pow2(x[2]) ELSE x[1] \div Pow2(-x[2])

\* f64 `/` by a power of two (WAVEFORM_LENGTH = 2^10): the quotient is exact.
F64DivPow2(x, y) == Norm(x[1], x[2] - y[2])

(***************************************************************************)
(* The blocks MidiFileSequencer::render may produce.  The synthesizer is   *)
(* an external library: its output is an input of this program, drawn from *)
(* a family of NumBlocks blocks.  Frame t of a block takes its stereo pair *)
(* <<left, right>> from table t % 4: loud samples beyond the i32 range     *)
(* after scaling, full scale and clipping samples, samples whose 16-bit    *)
(* value has a fraction (of either sign), samples next to full scale, and  *)
(* a pair whose sum fills the 24-bit significand of an f32, so that its    *)
(* smoothed averages are rounded.                                          *)
(***************************************************************************)
SamplePairs ==
    << << << <<1, 16>>, <<1, 16>> >>, << <<-1, 16>>, <<0, 0>> >>,
          << <<0, 0>>, <<0, 0>> >> >>,
       << << <<1, 0>>, <<-1, 0>> >>, << <<3, -1>>, <<1, 0>> >>,
          << <<-3, -1>>, <<-1, 0>> >>, << <<-1, 0>>, <<3, -1>> >> >>,
       << << <<5, -17>>, <<32763, -17>> >>, << <<-3, -17>>, <<-32765, -17>> >>,
          << <<1, -2>>, <<1, -2>> >>, << <<-1, -2>>, <<0, 0>> >> >>,
       << << <<65535, -16>>, <<1, -16>> >>, << <<-65537, -16>>, <<1, -16>> >>,
          << <<32767, -15>>, <<-32767, -15>> >>,
          << <<8388607, -23>>, <<1, -22>> >> >> >>

TablePair(t, n) ==
    LET table == SamplePairs[(t % 4) + 1]
    IN  table[(n % Len(table)) + 1]

RenderedLeft(k, len) == [t \in 0..(len - 1) |-> TablePair(t, k + (t \div 4))[1]]

RenderedRight(k, len) == [t \in 0..(len - 1) |-> TablePair(t, k + (t \div 4))[2]]

(***************************************************************************)
(* State.                                                                  *)
(***************************************************************************)
VARIABLES
    args,        \* number of command line arguments after the program name
    stderr,      \* lines written by eprintln!
    window,      \* "none", "open" or "closed"
    events,      \* pending window events, oldest first
    delivered,   \* number of events the user has produced so far
    mpc,         \* position of the main (render) thread
    wi,          \* index of the smoothing loop (main.rs:167)
    waveform,    \* main.rs:153
    vs,          \* vertices submitted to the window and not yet displayed
    displayed,   \* number of window.display calls
    frames,      \* loop iterations started
    playing,     \* player.play() has been called
    apc,         \* position of the audio thread inside get_data
    ai,          \* index of the publish loop (main.rs:83)
    sequencer,   \* number of blocks the sequencer has rendered
    left,        \* MidiMusicStream::left
    right,       \* MidiMusicStream::right
    batch,       \* MidiMusicStream::batch
    returned,    \* what the last get_data call returned: slice length and flag
    relay,       \* the Vec<f32> inside the Mutex
    mutex,       \* the Mutex: "free", held by "audio" or "main", or "poisoned"
    seen,        \* relay entries as read by the smoothing loop of this frame
    before,      \* waveform as it was when this frame's smoothing began
    block,       \* which block the sequencer rendered last (0: none yet)
    published,   \* the block of the last call that returned (0: none yet)
    observed     \* per frame, the block of published when the lock was taken

mainVars == <<args, stderr, window, events, delivered, mpc, wi, waveform, vs,
              displayed, frames, playing, seen, before, observed>>

audioVars == <<apc, ai, sequencer, left, right, batch, returned, block,
               published>>

vars == <<args, stderr, window, events, delivered, mpc, wi, waveform, vs,
          displayed, frames, playing, apc, ai, sequencer, left, right, batch,
          returned, relay, mutex, seen, before, block, published, observed>>

Zeros(n) == [i \in 0..(n - 1) |-> F32Zero]

Init ==
    /\ args \in 0..2
    /\ stderr = <<>>
    /\ window = "none"
    /\ events = <<>>
    /\ delivered = 0
    /\ mpc = "start"
    /\ wi = 0
    /\ waveform = <<>>
    /\ vs = <<>>
    /\ displayed = 0
    /\ frames = 0
    /\ playing = FALSE
    /\ apc = "idle"
    /\ ai = 0
    /\ sequencer = 0
    /\ left = <<>>
    /\ right = <<>>
    /\ batch = <<>>
    /\ returned = <<>>
    /\ relay = <<>>
    /\ mutex = "free"
    /\ seen = <<>>
    /\ before = <<>>
    /\ block = 0
    /\ published = 0
    /\ observed = <<>>

Size(f) == Cardinality(DOMAIN f)

\* What locates a thread in its code: the main thread's position, smoothing
\* index and event queue, the audio thread's position and publish index.
mainPosition == <<mpc, wi, events>>

audioPosition == <<apc, ai>>

(***************************************************************************)
(* Every step is written as its control flow (the guard and the thread's   *)
(* new position) and its effect on the data.  Where a step can panic on an *)
(* index, the control flow names both continuations and the data decide.   *)
(***************************************************************************)

(***************************************************************************)
(* The audio thread: SoundStream::get_data, called by the SoundStreamPlayer *)
(* once player.play() has started the stream.                              *)
(***************************************************************************)

SampleScale == F32FromInt(32768)

\* The conversion without the two range checks of main.rs:58-63.
ConvertSampleUnclamped(x) == I32ToI16(F32ToI32(F32Mul(SampleScale, x)))

\* main.rs:57-64 (and 66-73): scale, cast, clamp, narrow.
ConvertSample(x) ==
    LET scaled == F32ToI32(F32Mul(SampleScale, x))
        low == IF scaled < SAMPLE_MIN THEN SAMPLE_MIN ELSE scaled
        high == IF low > SAMPLE_MAX THEN SAMPLE_MAX ELSE low
    IN  I32ToI16(high)

\* main.rs:75-77: where the two samples of frame t go in the batch.
LeftSlot(t) == (2 * t) + 0

\* The right sample stored at the offset of the left one.
RightSlotOverLeft(t) == (2 * t) + 0

RightSlot(t) == (2 * t) + 1

\* main.rs:56-78: the conversion loop over t in 0..length.  Entry n of the
\* batch is written in iteration t = n / 2, the right sample after the left.
ConvertedBatch(old, l, r) ==
    [n \in DOMAIN old |->
        IF (n \div 2) \in DOMAIN l
        THEN IF n = RightSlot(n \div 2) THEN ConvertSample(r[n \div 2])
             ELSE IF n = LeftSlot(n \div 2) THEN ConvertSample(l[n \div 2])
             ELSE old[n]
        ELSE old[n]]

\* main.rs:55-78: every index of the conversion loop is within its buffer.
\* An index outside it panics (slices are bounds-checked).
ConversionInBounds ==
    \A t \in 0..(GetDataBatchLength - 1) :
        /\ t \in DOMAIN left
        /\ t \in DOMAIN right
        /\ LeftSlot(t) \in DOMAIN batch
        /\ RightSlot(t) \in DOMAIN batch

\* The index without decimation: entry i taken from frame i.
UndecimatedIndex(i) == i

WaveformLengthF64 == F32FromInt(WAVEFORM_LENGTH)

BatchLengthF64 == F32FromInt(GetDataBatchLength)

\* The index computed from i + 1: the last entry reads one frame past the
\* end of the block.
DecimationIndexInclusive(i) ==
    LET p == F32Mul(F64DivPow2(F32FromInt(i + 1), WaveformLengthF64), BatchLengthF64)
    IN  F64ToUsize(p)

\* main.rs:84-85: p = i / WAVEFORM_LENGTH * batch_length in f64, j = p as usize.
DecimationIndex(i) ==
    LET p == F32Mul(F64DivPow2(F32FromInt(i), WaveformLengthF64), BatchLengthF64)
    IN  F64ToUsize(p)

\* The entry added to what the relay buffer holds (`a[i] += ...`).
PublishedEntryAccumulated(l, r, i) ==
    LET j == DecimationIndex(i)
    IN  F32Add(relay[i], F32Add(l[j], r[j]))

\* main.rs:86
PublishedEntry(l, r, i) ==
    LET j == DecimationIndex(i)
    IN  F32Add(l[j], r[j])

\* One scheduling step of a pass over the relay buffer handles the entries
\* lo..PassEnd(lo)-1.
PassEnd(lo) == MinInt(lo + PassStride, WAVEFORM_LENGTH)

\* main.rs:83-86: the indices used for entry i are within a, left and right.
PublishInBounds(i) ==
    /\ i \in DOMAIN relay
    /\ DecimationIndex(i) \in DOMAIN left
    /\ DecimationIndex(i) \in DOMAIN right

\* main.rs:168: the index used for entry i is within waveform and a.
SmoothInBounds(i) == i \in DOMAIN waveform /\ i \in DOMAIN relay

\* The step of a pass that begins at lo panics when one of its indices is
\* out of bounds, and has then handled the entries before the first such
\* index.
PublishPassPanics(lo) == \E i \in lo..(PassEnd(lo) - 1) : ~PublishInBounds(i)

PublishPassReaches(lo, i) == \A h \in lo..i : PublishInBounds(h)

SmoothPassPanics(lo) == \E i \in lo..(PassEnd(lo) - 1) : ~SmoothInBounds(i)

SmoothPassReaches(lo, i) == \A h \in lo..i : SmoothInBounds(h)

\* A lock that does not wait for the holder.
MutexNeverWaits == TRUE

\* std::sync::Mutex::lock returns once no other thread holds the mutex.
MutexAvailable == mutex = "free"

\* The flag that ends the stream once the MIDI file has been played to its
\* end (`!self.sequencer.end_of_sequence()`).
ContinueUntilEnd == sequencer < MidiLength

\* main.rs:89: the second component of the returned tuple
ContinueFlag == TRUE

\* The player asks for the next batch unless the last call returned false.
StreamContinues == IF returned = <<>> THEN TRUE ELSE returned[2]

GetDataRenderFlow ==
    /\ playing
    /\ StreamContinues
    /\ apc = "idle"
    /\ sequencer < MaxCalls
    /\ apc' \in {"lock", "panicked"}
    /\ ai' = ai

\* main.rs:52-80: the sequencer renders the next block into left and right
\* and the block is converted into the batch.  Nothing here is shared with
\* the main thread.
GetDataRender ==
    /\ GetDataRenderFlow
    /\ (apc' = "panicked") = ~ConversionInBounds
    /\ \E k \in 1..NumBlocks :
          /\ left' = RenderedLeft(k, Size(left))
          /\ right' = RenderedRight(k, Size(right))
          /\ block' = k
    /\ sequencer' = sequencer + 1
    /\ batch' = ConvertedBatch(batch, left', right')
    /\ UNCHANGED <<mainVars, returned, published, relay, mutex>>

GetDataLockFlow ==
    /\ apc = "lock"
    /\ MutexAvailable \/ mutex = "poisoned"
    /\ apc' = (IF mutex = "poisoned" THEN "panicked" ELSE "publish")
    /\ ai' = 0

\* main.rs:82: lock() returns the guard, or Err when a thread has panicked
\* holding the mutex, and unwrap() then panics.
GetDataLock ==
    /\ GetDataLockFlow
    /\ mutex' = (IF mutex = "poisoned" THEN mutex ELSE "audio")
    /\ UNCHANGED <<mainVars, sequencer, left, right, batch, returned, block,
                   published, relay>>

GetDataPublishFlow ==
    /\ apc = "publish"
    /\ ai < WAVEFORM_LENGTH
    /\ apc' \in {apc, "panicked"}
    /\ ai' = (IF apc' = "panicked" THEN ai ELSE PassEnd(ai))

\* main.rs:83-87.  A panic inside the loop drops the guard while the thread
\* unwinds, which poisons the mutex.
GetDataPublish ==
    /\ GetDataPublishFlow
    /\ (apc' = "panicked") = PublishPassPanics(ai)
    /\ relay' = [i \in DOMAIN relay |->
                    IF /\ ai <= i /\ i < PassEnd(ai)
                       /\ apc' = "panicked" => PublishPassReaches(ai, i)
                    THEN PublishedEntry(left, right, i)
                    ELSE relay[i]]
    /\ mutex' = (IF apc' = "panicked" THEN "poisoned" ELSE mutex)
    /\ UNCHANGED <<mainVars, sequencer, left, right, batch, returned, block,
                   published>>

GetDataReturnFlow ==
    /\ apc = "publish"
    /\ ai >= WAVEFORM_LENGTH
    /\ apc' = "idle"
    /\ ai' = ai

\* The return with the guard leaked (std::mem::forget): the mutex stays
\* locked after the call.
GetDataReturnHolding ==
    /\ GetDataReturnFlow
    /\ returned' = <<Size(batch), ContinueFlag>>
    /\ published' = block
    /\ UNCHANGED <<mainVars, sequencer, left, right, batch, block, relay,
                   mutex>>

\* main.rs:89-90: the tuple is returned and the guard `a` is dropped.
GetDataReturn ==
    /\ GetDataReturnFlow
    /\ returned' = <<Size(batch), ContinueFlag>>
    /\ published' = block
    /\ mutex' = "free"
    /\ UNCHANGED <<mainVars, sequencer, left, right, batch, block, relay>>

AudioFlow ==
    \/ GetDataRenderFlow
    \/ GetDataLockFlow
    \/ GetDataPublishFlow
    \/ GetDataReturnFlow

AudioThread ==
    \/ GetDataRender
    \/ GetDataLock
    \/ GetDataPublish
    \/ GetDataReturn

\* The fields of the stream, as seek receives them in `&mut self`.
Self == [sequencer |-> sequencer, left |-> left, right |-> right, batch |-> batch]

\* A seek that rewinds the sequencer.
SeekRewinding(self, offset) == [self EXCEPT !.sequencer = 0]

\* main.rs:92: fn seek(&mut self, _offset: Time) {}
Seek(self, offset) == self

\* The player calls seek, between two get_data calls, with some offset.
SeekCall ==
    /\ playing
    /\ apc = "idle"
    /\ \E offset \in 0..1 :
          /\ sequencer' = Seek(Self, offset).sequencer
          /\ left' = Seek(Self, offset).left
          /\ right' = Seek(Self, offset).right
          /\ batch' = Seek(Self, offset).batch
    /\ UNCHANGED <<mainVars, apc, ai, returned, block, published, relay, mutex>>

\* main.rs:94-100
channel_count == 2

sample_rate == SAMPLE_RATE

(***************************************************************************)
(* The main thread: argument handling, set-up, and the render loop.        *)
(***************************************************************************)

MainMissingSoundfontFlow ==
    /\ mpc = "start"
    /\ args = 0
    /\ mpc' = "exit"
    /\ UNCHANGED <<wi, events>>

\* main.rs:109-113
MainMissingSoundfont ==
    /\ MainMissingSoundfontFlow
    /\ stderr' = stderr \o <<"Missing soundfont.",
                             "Usage: rustysynth-test <soundfont> <midi-file>">>
    /\ UNCHANGED <<args, window, delivered, waveform, vs, displayed, frames,
                   playing, seen, before, observed, audioVars, relay, mutex>>

\* The else block of main.rs:114 without its `return`: main goes on to
\* create the window and load the files.
MainMissingMidiFallsThrough ==
    /\ mpc = "start"
    /\ args = 1
    /\ mpc' = "load"
    /\ UNCHANGED <<wi, events>>

MainMissingMidiFlow ==
    /\ mpc = "start"
    /\ args = 1
    /\ mpc' = "exit"
    /\ UNCHANGED <<wi, events>>

\* main.rs:114-118
MainMissingMidi ==
    /\ MainMissingMidiFlow
    /\ stderr' = stderr \o <<"Missing path to midi file.",
                             "Usage: rustysynth-test <soundfont> <midi-file>">>
    /\ UNCHANGED <<args, window, delivered, waveform, vs, displayed, frames,
                   playing, seen, before, observed, audioVars, relay, mutex>>

MainCreateWindowFlow ==
    /\ mpc = "start"
    /\ args >= 2
    /\ mpc' = "load"
    /\ UNCHANGED <<wi, events>>

\* main.rs:119-126
MainCreateWindow ==
    /\ MainCreateWindowFlow
    /\ window' = "open"
    /\ UNCHANGED <<args, stderr, delivered, waveform, vs, displayed, frames,
                   playing, seen, before, observed, audioVars, relay, mutex>>

MainLoadPanicFlow ==
    /\ mpc = "load"
    /\ mpc' = "panicked"
    /\ events' = <<>>
    /\ wi' = wi

\* main.rs:129-138: one of the unwrap() calls meets an Err and panics; the
\* window is dropped while the stack unwinds.
MainLoadPanic ==
    /\ MainLoadPanicFlow
    /\ window' = "closed"
    /\ UNCHANGED <<args, stderr, delivered, waveform, vs, displayed, frames,
                   playing, seen, before, observed, audioVars, relay, mutex>>

MainStartPlaybackFlow ==
    /\ mpc = "load"
    /\ mpc' = "check"
    /\ UNCHANGED <<wi, events>>

\* main.rs:129-153 with both files loaded: the sequencer is started, the
\* relay buffer and the stream's buffers are allocated (main.rs:37-47), the
\* player is started and the smoothed waveform is allocated.
MainStartPlayback ==
    /\ MainStartPlaybackFlow
    /\ sequencer' = 0
    /\ relay' = Zeros(WAVEFORM_LENGTH)
    /\ left' = Zeros(NewBatchLength)
    /\ right' = Zeros(NewBatchLength)
    /\ batch' = [n \in 0..((2 * NewBatchLength) - 1) |-> 0]
    /\ playing' = TRUE
    /\ waveform' = Zeros(WAVEFORM_LENGTH)
    /\ UNCHANGED <<args, stderr, window, delivered, vs, displayed, frames,
                   seen, before, observed, apc, ai, returned, block,
                   published, mutex>>

\* The user closes the window or produces some other event.
UserEvent ==
    /\ window = "open"
    /\ delivered < MaxEvents
    /\ frames < MaxFrames
    /\ \E e \in {"Closed", "Other"} : events' = Append(events, e)
    /\ delivered' = delivered + 1
    /\ UNCHANGED <<args, stderr, window, mpc, wi, waveform, vs, displayed,
                   frames, playing, seen, before, observed, audioVars, relay, mutex>>

LoopEnterFlow ==
    /\ mpc = "check"
    /\ window = "open"
    /\ frames < MaxFrames
    /\ mpc' = "poll"
    /\ UNCHANGED <<wi, events>>

\* main.rs:155, window.is_open() is true
LoopEnter ==
    /\ LoopEnterFlow
    /\ frames' = frames + 1
    /\ UNCHANGED <<args, stderr, window, delivered, waveform, vs, displayed,
                   playing, seen, before, observed, audioVars, relay, mutex>>

LoopLeaveFlow ==
    /\ mpc = "check"
    /\ window # "open"
    /\ mpc' = "return"
    /\ UNCHANGED <<wi, events>>

\* main.rs:155, window.is_open() is false: the loop ends
LoopLeave ==
    /\ LoopLeaveFlow
    /\ UNCHANGED <<args, stderr, window, delivered, waveform, vs, displayed,
                   frames, playing, seen, before, observed, audioVars, relay, mutex>>

MainReturnFlow ==
    /\ mpc = "return"
    /\ apc = "idle"
    /\ mpc' = "exit"
    /\ UNCHANGED <<wi, events>>

\* main.rs:175: main returns; dropping the player stops the stream, which
\* waits for the get_data call in progress.
MainReturn ==
    /\ MainReturnFlow
    /\ playing' = FALSE
    /\ UNCHANGED <<args, stderr, window, delivered, waveform, vs, displayed,
                   frames, seen, before, observed, audioVars, relay, mutex>>

LoopPollEventFlow ==
    /\ mpc = "poll"
    /\ window = "open"
    /\ events # <<>>
    /\ events' = (IF Head(events) = "Closed" THEN <<>> ELSE Tail(events))
    /\ UNCHANGED <<mpc, wi>>

\* main.rs:156-161, poll_event returns Some(event); Event::Closed closes the
\* window, which discards its queue.
LoopPollEvent ==
    /\ LoopPollEventFlow
    /\ window' = (IF Head(events) = "Closed" THEN "closed" ELSE window)
    /\ UNCHANGED <<args, stderr, delivered, waveform, vs, displayed, frames,
                   playing, seen, before, observed, audioVars, relay, mutex>>

\* `if let` in place of `while let`: the loop does not wait for None.
PollNotAwaited == TRUE

\* main.rs:156: poll_event returns None
PollReturnsNone == window # "open" \/ events = <<>>

LoopClearFlow ==
    /\ mpc = "poll"
    /\ PollReturnsNone
    /\ mpc' = "lock"
    /\ UNCHANGED <<wi, events>>

\* main.rs:156, poll_event returns None; main.rs:163, window.clear
LoopClear ==
    /\ LoopClearFlow
    /\ vs' = <<>>
    /\ UNCHANGED <<args, stderr, window, delivered, waveform, displayed,
                   frames, playing, seen, before, observed, audioVars, relay, mutex>>

LoopLockFlow ==
    /\ mpc = "lock"
    /\ MutexAvailable \/ mutex = "poisoned"
    /\ mpc' = (IF mutex = "poisoned" THEN "panicked" ELSE "smooth")
    /\ wi' = 0
    /\ events' = events

\* main.rs:166: lock() returns the guard, or Err when a thread has panicked
\* holding the mutex, and unwrap() then panics.
LoopLock ==
    /\ LoopLockFlow
    /\ mutex' = (IF mutex = "poisoned" THEN mutex ELSE "main")
    /\ before' = waveform
    /\ observed' = Append(observed, published)
    /\ UNCHANGED <<args, stderr, window, delivered, waveform, vs, displayed,
                   frames, playing, seen, audioVars, relay>>

Half == <<1, -1>>

\* Smoothing that adds the whole relay entry to half the history.
SmoothedUnweighted(w, a) == F32Add(F32Mul(Half, w), a)

\* main.rs:168
\* The relay entry weighted by -0.5 instead of 0.5.
SmoothedDifference(w, a) == F32Add(F32Mul(Half, w), F32Mul(F32Neg(Half), a))

Smoothed(w, a) == F32Add(F32Mul(Half, w), F32Mul(Half, a))

LoopSmoothFlow ==
    /\ mpc = "smooth"
    /\ wi < WAVEFORM_LENGTH
    /\ mpc' \in {mpc, "panicked"}
    /\ wi' = (IF mpc' = "panicked" THEN wi ELSE PassEnd(wi))
    /\ events' = events

\* main.rs:167-169.  A panic inside the loop drops the guard while the thread
\* unwinds, which poisons the mutex.
LoopSmooth ==
    /\ LoopSmoothFlow
    /\ (mpc' = "panicked") = SmoothPassPanics(wi)
    /\ waveform' = [i \in DOMAIN waveform |->
                       IF /\ wi <= i /\ i < PassEnd(wi)
                          /\ mpc' = "panicked" => SmoothPassReaches(wi, i)
                       THEN Smoothed(waveform[i], relay[i])
                       ELSE waveform[i]]
    /\ seen' = [i \in 0..(PassEnd(wi) - 1) |->
                   IF wi <= i /\ i \in DOMAIN relay THEN relay[i]
                   ELSE IF i \in DOMAIN seen THEN seen[i] ELSE F32Zero]
    /\ mutex' = (IF mpc' = "panicked" THEN "poisoned" ELSE mutex)
    /\ UNCHANGED <<args, stderr, window, delivered, vs, displayed, frames,
                   playing, before, observed, audioVars, relay>>

LoopUnlockFlow ==
    /\ mpc = "smooth"
    /\ wi >= WAVEFORM_LENGTH
    /\ mpc' = "draw"
    /\ UNCHANGED <<wi, events>>

\* The smoothing pass takes the snapshot out of the relay buffer.
LoopUnlockTaking ==
    /\ LoopUnlockFlow
    /\ mutex' = "free"
    /\ relay' = Zeros(WAVEFORM_LENGTH)
    /\ UNCHANGED <<args, stderr, window, delivered, waveform, vs, displayed,
                   frames, playing, seen, before, observed, audioVars>>

\* The guard declared in the loop body instead of in a block of its own:
\* it is still alive when the waveform is drawn.
LoopUnlockLate ==
    /\ LoopUnlockFlow
    /\ UNCHANGED <<args, stderr, window, delivered, waveform, vs, displayed,
                   frames, playing, seen, before, observed, audioVars, relay, mutex>>

\* main.rs:170: the guard `a` is dropped at the end of the block
LoopUnlock ==
    /\ LoopUnlockFlow
    /\ mutex' = "free"
    /\ UNCHANGED <<args, stderr, window, delivered, waveform, vs, displayed,
                   frames, playing, seen, before, observed, audioVars, relay>>

\* main.rs:185-191: the literals 300_f32, -300_f32 and 384_f32
Gain == F32FromInt(WAVEFORM_GAIN)

NegGain == F32FromInt(-WAVEFORM_GAIN)

Baseline == F32FromInt(WINDOW_HALF_HEIGHT)

\* The quad computed from the signed value, without abs().
QuadVertexSigned(data, n) ==
    LET i == n \div 4
        corner == n % 4
        val == data[i]
        x == IF corner \in {1, 2} THEN F32FromInt(i + 1) ELSE F32FromInt(i + 0)
        y == IF corner \in {0, 1}
             THEN F32Add(F32Mul(NegGain, val), Baseline)
             ELSE F32Add(F32Mul(Gain, val), Baseline)
    IN  [position |-> <<x, y>>, color |-> <<0, 100, 200>>]

\* main.rs:180-192: vertex n of the array, n = 4 * i + corner
QuadVertex(data, n) ==
    LET i == n \div 4
        corner == n % 4
        val == F32Abs(data[i])
        x == IF corner \in {1, 2} THEN F32FromInt(i + 1) ELSE F32FromInt(i + 0)
        y == IF corner \in {0, 1}
             THEN F32Add(F32Mul(NegGain, val), Baseline)
             ELSE F32Add(F32Mul(Gain, val), Baseline)
    IN  [position |-> <<x, y>>, color |-> <<0, 100, 200>>]

\* main.rs:177-195
draw_waveform(data) == [n \in 0..((4 * WAVEFORM_LENGTH) - 1) |-> QuadVertex(data, n)]

LoopDrawFlow ==
    /\ mpc = "draw"
    /\ mpc' = "display"
    /\ UNCHANGED <<wi, events>>

\* main.rs:171
LoopDraw ==
    /\ LoopDrawFlow
    /\ vs' = draw_waveform(waveform)
    /\ UNCHANGED <<args, stderr, window, delivered, waveform, displayed,
                   frames, playing, seen, before, observed, audioVars, relay, mutex>>

LoopDisplayFlow ==
    /\ mpc = "display"
    /\ mpc' = "check"
    /\ UNCHANGED <<wi, events>>

\* main.rs:173: the frame is presented; nothing is left to display
LoopDisplay ==
    /\ LoopDisplayFlow
    /\ displayed' = displayed + 1
    /\ vs' = <<>>
    /\ UNCHANGED <<args, stderr, window, delivered, waveform, frames,
                   playing, seen, before, observed, audioVars, relay, mutex>>

MainFlow ==
    \/ MainMissingSoundfontFlow
    \/ MainMissingMidiFlow
    \/ MainCreateWindowFlow
    \/ MainLoadPanicFlow
    \/ MainStartPlaybackFlow
    \/ LoopEnterFlow
    \/ LoopLeaveFlow
    \/ MainReturnFlow
    \/ LoopPollEventFlow
    \/ LoopClearFlow
    \/ LoopLockFlow
    \/ LoopSmoothFlow
    \/ LoopUnlockFlow
    \/ LoopDrawFlow
    \/ LoopDisplayFlow

MainThread ==
    \/ MainMissingSoundfont
    \/ MainMissingMidi
    \/ MainCreateWindow
    \/ MainLoadPanic
    \/ MainStartPlayback
    \/ LoopEnter
    \/ LoopLeave
    \/ MainReturn
    \/ LoopPollEvent
    \/ LoopClear
    \/ LoopLock
    \/ LoopSmooth
    \/ LoopUnlock
    \/ LoopDraw
    \/ LoopDisplay

Next == MainThread \/ AudioThread \/ SeekCall \/ UserEvent

Spec == Init /\ [][Next]_vars

\* The scheduler lets each thread run: a thread that can take its next step
\* takes it.  A step of a thread is a step of its control flow, and the data
\* part of every step can always be carried out.
LiveSpec == Spec /\ WF_mainPosition(MainFlow) /\ WF_audioPosition(AudioFlow)

(***************************************************************************)
(* The stream without an end: the player calls get_data for as long as it  *)
(* plays.  The calls after the first MaxCalls are no longer counted.       *)
(***************************************************************************)
GetDataRenderOnFlow ==
    /\ playing
    /\ StreamContinues
    /\ apc = "idle"
    /\ sequencer >= MaxCalls
    /\ apc' \in {"lock", "panicked"}
    /\ ai' = ai

\* main.rs:52-80, in a call after the counted ones
GetDataRenderOn ==
    /\ GetDataRenderOnFlow
    /\ (apc' = "panicked") = ~ConversionInBounds
    /\ \E k \in 1..NumBlocks :
          /\ left' = RenderedLeft(k, Size(left))
          /\ right' = RenderedRight(k, Size(right))
          /\ block' = k
    /\ batch' = ConvertedBatch(batch, left', right')
    /\ UNCHANGED <<mainVars, sequencer, returned, published, relay, mutex>>

StreamingAudioFlow == AudioFlow \/ GetDataRenderOnFlow

StreamingNext ==
    MainThread \/ AudioThread \/ GetDataRenderOn \/ SeekCall \/ UserEvent

\* Both threads are scheduled weakly fairly; nothing is assumed about which
\* of two threads gets a mutex both want.
StreamingSpec ==
    /\ Init
    /\ [][StreamingNext]_vars
    /\ WF_mainPosition(MainFlow)
    /\ WF_audioPosition(StreamingAudioFlow)

(***************************************************************************)
(* Vocabulary of the properties.                                           *)
(***************************************************************************)

\* main is between the allocation of the buffers and its return
Constructed == mpc \in {"check", "poll", "lock", "smooth", "draw", "display", "return"}

\* a get_data call has returned and the next one has not begun
AfterGetData == apc = "idle" /\ returned # <<>>

Clamp16(v) == IF v < -32768 THEN -32768 ELSE IF v > 32767 THEN 32767 ELSE v

\* The integer part of 32768 * x, clamped to the 16-bit range, for the
\* real number x = m * 2^e.
TruncClamp(x) ==
    LET m == x[1]
        e == x[2] + 15
    IN  IF m = 0 THEN 0
        ELSE IF e >= 0
        THEN IF e >= 16 \/ AbsInt(m) >= 32768
             THEN (IF m > 0 THEN 32767 ELSE -32768)
             ELSE Clamp16(m * (2 ^ e))
        ELSE IF -e >= 31 THEN 0
             ELSE Clamp16(IF m > 0 THEN m \div (2 ^ (-e))
                          ELSE -((-m) \div (2 ^ (-e))))

\* x >= 1.0 and x <= -1.0 for the real number x = m * 2^e
AtLeastOne(x) == x[1] > 0 /\ (x[2] >= 0 \/ (-x[2] < 31 /\ x[1] >= 2 ^ (-x[2])))

AtMostMinusOne(x) == AtLeastOne(<<-x[1], x[2]>>)

\* C1: after every get_data call, for every frame t of the block and each
\* channel, the emitted sample is the integer part of 32768 * x clamped to
\* [-32768, 32767], x being the rendered float sample; every element of the
\* batch is in that range, x >= 1.0 gives 32767 and x <= -1.0 gives -32768.
SaturatingConversion ==
    AfterGetData =>
        /\ \A n \in DOMAIN batch : batch[n] >= -32768 /\ batch[n] <= 32767
        /\ \A t \in 0..2204 :
              /\ batch[2 * t] = TruncClamp(left[t])
              /\ batch[(2 * t) + 1] = TruncClamp(right[t])
              /\ AtLeastOne(left[t]) => batch[2 * t] = 32767
              /\ AtLeastOne(right[t]) => batch[(2 * t) + 1] = 32767
              /\ AtMostMinusOne(left[t]) => batch[2 * t] = -32768
              /\ AtMostMinusOne(right[t]) => batch[(2 * t) + 1] = -32768

\* A returned batch holds a sample beyond the i32 range after scaling
\* (65536.0), a clipped negative sample (-1.5), negative samples whose
\* scaled values -0.75 and -8191.25 truncate to 0 and -8191, and one whose
\* scaled value is 32767.5.
SaturatingConversionWitness ==
    /\ AfterGetData
    /\ \E t \in 0..7 : left[t] = <<1, 16>> /\ batch[2 * t] = 32767
    /\ \E t \in 0..7 : left[t] = <<-3, -1>> /\ batch[2 * t] = -32768
    /\ \E t \in 0..15 : left[t] = <<-3, -17>> /\ batch[2 * t] = 0
    /\ \E t \in 0..15 : left[t] = <<65535, -16>> /\ batch[2 * t] = 32767
    /\ \E t \in 0..15 : right[t] = <<-32765, -17>> /\ batch[(2 * t) + 1] = -8191

\* The decimated copy of block k, as published in the relay buffer.
PublishedBlock(k) ==
    [i \in 0..1023 |->
        F32Add(RenderedLeft(k, 2205)[(i * 2205) \div 1024],
               RenderedRight(k, 2205)[(i * 2205) \div 1024])]

\* C2: the write pass of get_data and the read pass of the render loop are
\* never in progress together, and the 1024 values a completed read pass has
\* observed are the initial zeros or the decimation of one single block,
\* never a mix of two.
RelayPassesExclusive ==
    /\ ~(apc = "publish" /\ mpc = "smooth")
    /\ mpc = "draw" =>
          \/ seen = Zeros(1024)
          \/ \E k \in 1..NumBlocks : seen = PublishedBlock(k)

\* A read pass has observed a published block while the audio thread was
\* waiting for the mutex with the next block.
RelayPassesExclusiveWitness ==
    /\ mpc = "smooth"
    /\ wi = WAVEFORM_LENGTH
    /\ apc = "lock"
    /\ sequencer = 2
    /\ seen # Zeros(1024)
    /\ \E i \in 0..1023 : seen[i] # PublishedEntry(left, right, i)

\* C3: after every get_data call, relay[i] = left[j] + right[j] with
\* j = floor(i * 2205 / 1024) for every i in 0..1023, left and right being
\* the block that call rendered.
RelayIsDecimatedBlock ==
    AfterGetData =>
        /\ DOMAIN relay = 0..1023
        /\ \A i \in 0..1023 :
              relay[i] = F32Add(left[(i * 2205) \div 1024],
                                right[(i * 2205) \div 1024])

\* The second call has returned and has replaced the first block's snapshot;
\* the last entry comes from frame 2202.
RelayIsDecimatedBlockWitness ==
    /\ AfterGetData
    /\ sequencer = 2
    /\ relay[1023] = F32Add(left[2202], right[2202])
    /\ relay[1023] # F32Zero
    /\ \E i \in 0..1023 : relay[i] # F32Add(left[i], right[i])

\* C4: once allocated, the relay buffer and the smoothed waveform have 1024
\* entries, the left and right blocks 2205 and the batch 4410, in every
\* state; every get_data call returns 4410 samples.
BufferSizesFixed ==
    Constructed =>
        /\ DOMAIN relay = 0..1023
        /\ DOMAIN waveform = 0..1023
        /\ DOMAIN left = 0..2204
        /\ DOMAIN right = 0..2204
        /\ DOMAIN batch = 0..4409
        /\ returned # <<>> => returned[1] = 4410

\* Two blocks have been returned and two frames drawn.
BufferSizesFixedWitness ==
    /\ Constructed
    /\ sequencer = 2
    /\ returned = <<4410, TRUE>>
    /\ displayed = 2

\* half of a dyadic number, exactly
DyadicHalf(x) == IF x[1] = 0 THEN x ELSE <<x[1], x[2] - 1>>

\* C5: when the smoothing pass of a frame is complete, every entry is
\* 0.5 * (its value before the frame) + 0.5 * (the relay entry read under
\* the lock in that frame), as an f32 (the average of the two, rounded
\* once), and the array handed to draw_waveform is the smoothed waveform.
SmoothedOncePerFrame ==
    /\ mpc = "draw" =>
          /\ DOMAIN seen = 0..1023
          /\ \A i \in 0..1023 :
                waveform[i] = F32Round(DyadicHalf(DyadicAdd(before[i], seen[i])))
    /\ mpc = "display" =>
          \A i \in 0..1023 :
             /\ vs[4 * i] = QuadVertex(waveform, 4 * i)
             /\ vs[(4 * i) + 2] = QuadVertex(waveform, (4 * i) + 2)

\* The second frame has smoothed a published block into a waveform that
\* already held history.
SmoothedOncePerFrameWitness ==
    /\ mpc = "draw"
    /\ frames = 2
    /\ \E i \in 0..1023 :
          /\ before[i] # F32Zero
          /\ seen[i] # F32Zero
          /\ seen[i] # before[i]
          /\ waveform[i] # seen[i]
          /\ waveform[i] # before[i]

FrameStep ==
    /\ mpc \in {"check", "poll", "lock", "smooth", "draw", "display"}
    /\ \/ mpc' # mpc
       \/ wi' # wi
       \/ Len(events') < Len(events)

\* a step of a get_data call
GetDataStep == apc' # apc \/ ai' # ai

\* C7: only the audio thread writes the relay buffer, and only inside its
\* publish pass; a step of a render frame leaves the relay buffer, the left
\* and right blocks, the batch and the sequencer unchanged; a step of
\* get_data leaves the smoothed waveform and the window unchanged.
HandoffOneDirectional ==
    [][/\ (Constructed /\ relay' # relay) => (apc = "publish" /\ mutex = "audio")
       /\ FrameStep => UNCHANGED <<relay, left, right, batch, sequencer>>
       /\ GetDataStep => UNCHANGED <<waveform, window, events, vs, displayed>>]_vars

\* Both directions have run: a published block has been smoothed into the
\* waveform and drawn, and the relay buffer still holds that block.
HandoffOneDirectionalWitness ==
    /\ mpc = "check"
    /\ displayed >= 1
    /\ AfterGetData
    /\ waveform # Zeros(1024)
    /\ relay # Zeros(1024)
    /\ \A i \in 0..1023 : relay[i] = PublishedEntry(left, right, i)

\* C8: the returned batch is interleaved in frame order, batch[2t] the
\* converted left sample and batch[2t+1] the converted right sample of frame
\* t, for all 2205 frames of the block just rendered; the stream has 2
\* channels at 44100 Hz.
BatchInterleaved ==
    /\ channel_count = 2
    /\ sample_rate = 44100
    /\ AfterGetData =>
          /\ returned = <<4410, TRUE>>
          /\ \A t \in 0..2204 :
                /\ batch[2 * t] = ConvertSample(left[t])
                /\ batch[(2 * t) + 1] = ConvertSample(right[t])

\* The second block has been returned, with frames whose two channels
\* differ.
BatchInterleavedWitness ==
    /\ AfterGetData
    /\ sequencer = 2
    /\ \E t \in 0..2204 : batch[2 * t] # batch[(2 * t) + 1]
    /\ \E t \in 0..2204 : batch[2 * t] > 0 /\ batch[(2 * t) + 1] < 0

\* C9: the audio thread holds the mutex exactly during its publish pass,
\* which follows rendering and conversion and ends when get_data returns;
\* the main thread holds it exactly during the smoothing pass, not while it
\* polls events, draws or displays.
MutexHeldOnlyForCopy ==
    /\ mutex \in {"free", "audio", "main"}
    /\ mutex = "audio" <=> apc = "publish"
    /\ mutex = "main" <=> mpc = "smooth"
    /\ apc = "publish" => sequencer >= 1 /\ batch[0] = ConvertSample(left[0])

\* The audio thread publishes while the main thread draws, and the main
\* thread smooths while the audio thread waits for the mutex.
MutexHeldOnlyForCopyWitness ==
    \/ mutex = "audio" /\ mpc = "draw" /\ ai = PassStride
    \/ mutex = "main" /\ apc = "lock" /\ wi = PassStride

InGetData == apc \in {"lock", "publish"}

\* a render frame is in progress and has not reached window.display
InFrame == mpc \in {"poll", "lock", "smooth", "draw"}

\* Every acquisition of the mutex is followed by its release.
EveryLockReleased == (mutex # "free") ~> (mutex = "free")

EveryCallReturns == InGetData ~> (apc = "idle")

EveryFrameDisplays == InFrame ~> (mpc = "display")

\* A thread waiting for a mutex that is free again and again gets it.
LockHandedOver ==
    /\ SF_mainPosition(LoopLockFlow)
    /\ SF_audioPosition(GetDataLockFlow)

\* C11 as stated: with both threads scheduled weakly fairly, every
\* acquisition of the mutex is followed by a release, every started get_data
\* call returns and every started render frame reaches window.display.
HandoffStarvationFree ==
    /\ EveryLockReleased
    /\ EveryCallReturns
    /\ EveryFrameDisplays

\* C11, amended: with both threads scheduled weakly fairly, no thread ever
\* holds the mutex of a thread that waits for another lock, every
\* acquisition of the mutex is followed by a release, and if moreover a
\* waiting thread gets a mutex that is free again and again, every started
\* get_data call returns and every started render frame reaches
\* window.display.
HandoffFairLockProgress ==
    /\ [][(mutex' # mutex) => (mutex = "free" \/ mutex' = "free")]_vars
    /\ EveryLockReleased
    /\ LockHandedOver => (EveryCallReturns /\ EveryFrameDisplays)

\* The render frame waits for the mutex while a get_data call that follows
\* MaxCalls earlier ones is in the middle of its publish pass.
HandoffFairLockProgressWitness ==
    /\ mpc = "lock"
    /\ mutex = "audio"
    /\ apc = "publish"
    /\ ai = PassStride
    /\ sequencer >= MaxCalls
    /\ returned # <<>>

\* C12: once the buffers exist, every index get_data and the render loop
\* use is within its buffer: the decimation index of every i in 0..1023 is
\* between 0 and 2202 and within left and right, the batch indices 2t and
\* 2t+1 of every t in 0..2204 are below 4410 and within the batch, the
\* indices 0..1023 are within the relay buffer and the waveform; no thread
\* has panicked on an index or on lock().unwrap(), and the mutex is not
\* poisoned.
IndicesInBounds ==
    Constructed =>
        /\ \A i \in 0..1023 :
              \E j \in {DecimationIndex(i)} :
                  /\ j >= 0 /\ j <= 2202
                  /\ j \in DOMAIN left /\ j \in DOMAIN right
                  /\ i \in DOMAIN relay /\ i \in DOMAIN waveform
        /\ \A t \in 0..2204 :
              /\ LeftSlot(t) = 2 * t
              /\ RightSlot(t) = (2 * t) + 1
              /\ RightSlot(t) < 4410
        /\ ConversionInBounds
        /\ mutex # "poisoned"
        /\ apc # "panicked"
        /\ mpc # "panicked"

\* The last indices have been used: a call has converted frame 2204 into
\* batch[4409] and published left[2202] + right[2202] as relay[1023], and a
\* frame has smoothed entry 1023 of that snapshot and released the mutex.
IndicesInBoundsWitness ==
    /\ mpc = "draw"
    /\ AfterGetData
    /\ mutex = "free"
    /\ batch[4409] = 32767
    /\ relay[1023] = F32Add(left[2202], right[2202])
    /\ relay[1023] # F32Zero
    /\ seen[1023] = relay[1023]
    /\ waveform[1023] # F32Zero

\* Entry i of the snapshot of block k; block 0 stands for the zeros the
\* relay buffer is created with.
SnapshotEntry(k, i) ==
    IF k = 0 THEN F32Zero
    ELSE LET j == (i * 2205) \div 1024
             pair == TablePair(j, k + (j \div 4))
         IN  F32Add(pair[1], pair[2])

\* the number of get_data calls that have returned
CallsReturned == IF apc \in {"lock", "publish"} THEN sequencer - 1 ELSE sequencer

\* C13: the relay buffer is a single slot that the last writer wins.
\* Whenever no publish pass is in progress it holds the snapshot of the most
\* recent get_data call that has returned, and nothing of earlier calls;
\* a read pass begins with the snapshot of the most recent call that had
\* returned when the render thread took the lock, and the entries it reads
\* are those of that snapshot; the most recent call returned changes only
\* when a call returns and the number of calls returned never goes
\* backwards, so no frame observes an older snapshot than the frame before.
SingleSlotLastWriterWins ==
    /\ [](Constructed =>
            /\ CallsReturned = 0 => published = 0
            /\ mutex # "audio" =>
                   \A i \in 0..1023 : relay[i] = SnapshotEntry(published, i)
            /\ Len(observed) = (IF mpc \in {"smooth", "draw", "display"}
                                THEN frames ELSE IF mpc \in {"poll", "lock"}
                                THEN frames - 1 ELSE Len(observed))
            /\ (mpc \in {"smooth", "draw", "display"}) =>
                   /\ mpc = "smooth" => observed[Len(observed)] = published
                   /\ \A i \in 0..((IF mpc = "smooth" THEN wi ELSE 1024) - 1) :
                         seen[i] = SnapshotEntry(observed[Len(observed)], i))
    /\ [][/\ CallsReturned' >= CallsReturned
           /\ published' # published =>
                 (CallsReturned' = CallsReturned + 1 /\ published' = block)]_vars
    /\ [][(mutex # "main" /\ mutex' = "main") =>
              observed' = Append(observed, published)]_vars

\* One call has returned and two frames have read its snapshot, which
\* differs from the zeros the buffer began with.
SingleSlotLastWriterWinsWitness ==
    /\ mpc = "draw"
    /\ CallsReturned = 1
    /\ published # 0
    /\ observed = <<published, published>>
    /\ seen = relay
    /\ \E i \in 0..1023 : seen[i] # F32Zero

\* the MIDI file has been played to its end
EndOfSequence == sequencer >= MidiLength

\* C14: every get_data call returns the whole batch of 4410 samples with the
\* flag true, however many blocks have been rendered and also after the end
\* of the MIDI file; a seek changes nothing; while the player plays and no
\* call is in progress the next call can begin, and playing ends only with
\* the end of main.
NeverEndOfStream ==
    /\ [](returned # <<>> => returned = <<4410, TRUE>>)
    /\ [](StreamContinues)
    /\ []((playing /\ apc = "idle") => ENABLED StreamingAudioFlow)
    /\ [][SeekCall => UNCHANGED vars]_vars
    /\ [][(playing /\ ~playing') => mpc' = "exit"]_vars

\* A call that began after the end of the MIDI file has returned, and the
\* player goes on.
NeverEndOfStreamWitness ==
    /\ playing
    /\ AfterGetData
    /\ EndOfSequence
    /\ sequencer > MidiLength
    /\ returned = <<4410, TRUE>>
    /\ ENABLED GetDataRenderOnFlow

\* nothing of the playback exists: no window, no file has been opened, no
\* sequencer, no buffers, no stream
NothingStarted ==
    /\ window = "none"
    /\ mpc \in {"start", "exit"}
    /\ ~playing
    /\ sequencer = 0 /\ block = 0 /\ returned = <<>>
    /\ left = <<>> /\ right = <<>> /\ batch = <<>>
    /\ relay = <<>> /\ waveform = <<>>
    /\ mutex = "free" /\ apc = "idle"
    /\ frames = 0 /\ displayed = 0 /\ vs = <<>>

\* C15: without a soundfont argument, and with a soundfont but without a
\* MIDI file argument, main prints its error line and the usage line and
\* returns, and nothing of the playback is ever started; with both
\* arguments it prints nothing and goes on to create the window before it
\* loads anything or starts the stream.
ArgumentsValidatedFirst ==
    /\ args = 0 =>
          /\ NothingStarted
          /\ stderr = (IF mpc = "start" THEN <<>>
                       ELSE <<"Missing soundfont.", "Usage: rustysynth-test <soundfont> <midi-file>">>)
    /\ args = 1 =>
          /\ NothingStarted
          /\ stderr = (IF mpc = "start" THEN <<>>
                       ELSE <<"Missing path to midi file.", "Usage: rustysynth-test <soundfont> <midi-file>">>)
    /\ args >= 2 =>
          /\ stderr = <<>>
          /\ mpc # "start" => window # "none"
          /\ (playing \/ relay # <<>> \/ left # <<>>) => Constructed \/ mpc = "exit"

\* main was started with the soundfont only and has returned after its two
\* lines.
ArgumentsValidatedFirstWitness ==
    /\ args = 1
    /\ mpc = "exit"
    /\ Len(stderr) = 2
    /\ stderr[1] = "Missing path to midi file."
    /\ NothingStarted

\* the exact difference x - y, and x <= y
DyadicSub(x, y) == DyadicAdd(x, F32Neg(y))

DyadicLe(x, y) == DyadicSub(y, x)[1] >= 0

\* the magnitude of entry i of the snapshot of block k
SnapshotMagnitude ==
    [k \in 1..NumBlocks |-> [i \in 0..1023 |-> F32Abs(SnapshotEntry(k, i))]]

\* every value of entry i that a frame has read from the relay buffer lies
\* in [-M, M]
ObservedWithin(i, M) ==
    \A n \in DOMAIN observed :
        observed[n] # 0 => DyadicLe(SnapshotMagnitude[observed[n]][i], M)

\* the magnitudes entry i of a published snapshot can have
Magnitudes(i) ==
    {F32Zero} \cup {SnapshotMagnitude[k][i] : k \in 1..NumBlocks}

\* an f32 holds x without rounding
Representable(x) == AbsInt(x[1]) < F32Limit

\* for every bound M, if the values read from the relay buffer so far lie
\* in [-M, M] then so does the waveform
WaveformWithinPublished ==
    Constructed =>
        \A i \in 0..1023 :
            \A M \in Magnitudes(i) :
                ObservedWithin(i, M) => DyadicLe(F32Abs(waveform[i]), M)

\* the last two frames have read the same snapshot
RelayNotRepublished ==
    /\ Len(observed) >= 2
    /\ observed[Len(observed)] = observed[Len(observed) - 1]

\* The statement with exact halving: the waveform stays within the bound of
\* the published values, and on a frame that reads the same snapshot as the
\* frame before, the distance of every entry to the relay entry is exactly
\* half of what it was.
ConvexExactlyHalving ==
    /\ WaveformWithinPublished
    /\ (mpc = "draw" /\ RelayNotRepublished) =>
          \A i \in 0..1023 :
             LET after == DyadicSub(waveform[i], seen[i])
             IN  DyadicAdd(after, after) = DyadicSub(before[i], seen[i])

\* C16: the waveform stays within every bound [-M, M] of the values read
\* from the relay buffer; a frame moves every entry to the f32 nearest the
\* point halfway between its old value and the relay entry, so the distance
\* to the relay entry halves exactly whenever that point is an f32, never
\* grows, and the entry never passes the relay entry.
ConvexHalvingRounded ==
    /\ WaveformWithinPublished
    /\ mpc = "draw" =>
          \A i \in 0..1023 :
             LET was == DyadicSub(before[i], seen[i])
                 after == DyadicSub(waveform[i], seen[i])
                 halfway == DyadicHalf(DyadicAdd(before[i], seen[i]))
             IN  /\ waveform[i] = F32Round(halfway)
                 /\ Representable(halfway) => DyadicAdd(after, after) = was
                 /\ was[1] >= 0 => after[1] >= 0 /\ DyadicLe(after, was)
                 /\ was[1] <= 0 => after[1] <= 0 /\ DyadicLe(was, after)

\* The second frame has read the snapshot the first frame read: one entry
\* has halved its distance exactly, another one holds a rounded average.
ConvexHalvingRoundedWitness ==
    /\ mpc = "draw"
    /\ RelayNotRepublished
    /\ observed[1] # 0
    /\ \E i \in 0..1023 :
          /\ before[i] # seen[i]
          /\ Representable(DyadicHalf(DyadicAdd(before[i], seen[i])))
          /\ waveform[i] # seen[i]
    /\ \E i \in 0..1023 :
          /\ ~Representable(DyadicHalf(DyadicAdd(before[i], seen[i])))
          /\ waveform[i] # seen[i]
          /\ waveform[i] # before[i]

====
